---- MODULE Spec2Model ----
(***************************************************************************)
(* A model of zip-file-maker.py: the AdvancedCompression engine            *)
(* (analyze_data, _calculate_entropy, _is_compressed, preprocess_text,     *)
(* compress_data) and the ZipMakerGUI object with its UI-thread handlers   *)
(* and its create_zip worker threads.                                      *)
(*                                                                         *)
(* Byte strings are sequences of numbers 0..255.  A call that returns is   *)
(* Ret(v), a call that ends in an exception is Raise(e).                   *)
(***************************************************************************)
EXTENDS Naturals, Integers, Sequences, FiniteSets, Bags, TLC

\* ------------------------------------------------------------------ bounds

\* Longest free-form byte string fed to the engine.
MaxLen == 3
\* Longest tail appended to a compression signature in the engine's inputs.
MaxTail == 1

\* ------------------------------------------------------- program constants

\* data[:4096], the sample handed to _calculate_entropy and _is_compressed.
SampleSize == 4096
\* len(data) < 1024: "small files".
SmallFile == 1024

\* ---------------------------------------------------------------- helpers

Ret(v) == [ok |-> TRUE, val |-> v, exc |-> "none"]
Raise(e) == [ok |-> FALSE, val |-> "none", exc |-> e]

Min(a, b) == IF a < b THEN a ELSE b

\* data[:n]
Slice(data, n) == SubSeq(data, 1, Min(n, Len(data)))

\* data.startswith(sig)
startswith(data, sig) ==
    /\ Len(data) >= Len(sig)
    /\ SubSeq(data, 1, Len(sig)) = sig

\* ----------------------------------------------------- AdvancedCompression

\* compression_signatures: ZIP, GZIP, BZIP2, XZ, PNG, JPEG.
compression_signatures ==
    << <<80, 75, 3, 4>>,
       <<31, 139>>,
       <<66, 90, 104>>,
       <<253, 55, 122, 88, 90>>,
       <<137, 80, 78, 71>>,
       <<255, 216, 255>> >>

_is_compressed(data) ==
    \E i \in 1..Len(compression_signatures) :
        startswith(data, compression_signatures[i])

\* Counter(data): the number of occurrences of each byte value present.
Counter(data) ==
    [b \in {data[i] : i \in 1..Len(data)} |->
        Cardinality({i \in 1..Len(data) : data[i] = b})]

\* _calculate_entropy: 0 for an empty sample.  Otherwise the loop body runs
\* for the first count: probability = count / total is a float, and
\* probability.bit_length() raises AttributeError (float has no bit_length),
\* so no entropy value is ever produced for a non-empty sample.
_calculate_entropy(data) ==
    IF Len(data) = 0
    THEN Ret(0)
    ELSE IF DOMAIN Counter(data) # {}
         THEN Raise("AttributeError")
         ELSE Ret(0)

\* analyze_data: the entropy is computed first (line 22), so its exception
\* leaves analyze_data before the signature test.  The thresholds 7.5 and
\* 6.5 are compared doubled (15, 13) to stay in the integers.
analyze_data(data) ==
    LET entropy == _calculate_entropy(Slice(data, SampleSize))
    IN  IF ~entropy.ok THEN Raise(entropy.exc)
        ELSE IF _is_compressed(Slice(data, SampleSize)) THEN Ret("store")
        ELSE IF Len(data) < SmallFile THEN Ret("zlib")
        ELSE IF 2 * entropy.val > 15 THEN Ret("lzma")
        ELSE IF 2 * entropy.val > 13 THEN Ret("bzip2")
        ELSE Ret("zlib")

\* ---- preprocess_text

\* bytes.decode('utf-8').  Every byte below 0x80 is one ASCII code point.
\* The byte strings of this model that reach preprocess_text hold no
\* well-formed multi-byte sequence (their only bytes >= 0x80 are 0xFF, 0xFD,
\* 0x89, 0x8B, and 0xD8 right after 0xFF), so a byte >= 0x80 is an invalid
\* start byte and the decode raises.
utf8_decode(data) ==
    IF \A i \in 1..Len(data) : data[i] < 128
    THEN Ret(data)
    ELSE Raise("UnicodeDecodeError")

\* str.encode('utf-8') of ASCII code points: one byte each.
utf8_encode(text) == [i \in 1..Len(text) |-> text[i]]

\* str.isspace() for one ASCII code point (what str.split() splits on).
IsSpace(c) == c \in {9, 10, 11, 12, 13, 28, 29, 30, 31, 32}

\* str.isalnum() for one ASCII code point.
IsAlnumChar(c) == c \in (48..57) \cup (65..90) \cup (97..122)

\* text.split(): the maximal runs of non-whitespace, in order.
RECURSIVE split(_)
split(text) ==
    IF Len(text) = 0 THEN <<>>
    ELSE IF IsSpace(Head(text)) THEN split(Tail(text))
    ELSE LET n == CHOOSE k \in 1..Len(text) :
                    /\ \A j \in 1..k : ~IsSpace(text[j])
                    /\ (k = Len(text) \/ IsSpace(text[k + 1]))
         IN  <<SubSeq(text, 1, n)>> \o split(SubSeq(text, n + 1, Len(text)))

\* ' '.join(words)
RECURSIVE join(_)
join(words) ==
    IF Len(words) = 0 THEN <<>>
    ELSE IF Len(words) = 1 THEN words[1]
    ELSE words[1] \o <<32>> \o join(Tail(words))

\* text.isalnum(): at least one character, all alphanumeric.
isalnum(text) ==
    /\ Len(text) > 0
    /\ \A i \in 1..Len(text) : IsAlnumChar(text[i])

\* text.lower() on ASCII.
lower(text) ==
    [i \in 1..Len(text) |->
        IF text[i] \in 65..90 THEN text[i] + 32 ELSE text[i]]

\* preprocess_text: whitespace runs collapsed and trimmed, a purely
\* alphanumeric text lower-cased; bytes that are not UTF-8 come back as is.
preprocess_text(data) ==
    LET decoded == utf8_decode(data)
        joined  == join(split(decoded.val))
        text    == IF isalnum(joined) THEN lower(joined) ELSE joined
    IN  IF decoded.ok THEN utf8_encode(text) ELSE data

\* ---- compress_data

\* A byte string as compress_data returns it: the bytes themselves
\* (enc = "raw"), or the output of a library compressor, known by the codec,
\* the bytes it encodes and its length.
Raw(data) == [enc |-> "raw", src |-> data, len |-> Len(data)]
Packed(codec, data, n) == [enc |-> codec, src |-> data, len |-> n]

\* The levels compress_data asks of the libraries: zlib 1, 6, 9;
\* bz2 compresslevel=9; lzma preset 9.
Levels == {1, 6, 9}

\* What the compression libraries do in one call of compress_data: the
\* length of the output at each level, and whether the library raises.
\* zlib.compress, bz2.compress and lzma.compress are not part of the
\* program; a stream is never empty (an empty input already costs zlib 8
\* bytes, bz2 14, raw lzma2 1).
LibOutcomes(maxOut) == [n : [Levels -> 1..maxOut], err : BOOLEAN]

\* compression_method with the bzip2 branch carrying the label of the lzma
\* branch (a copy of line 123 at line 116).
compression_method_name_copied(method, best_level) ==
    CASE method = "zlib"  -> (CASE best_level = 1 -> "zlib-1"
                                [] best_level = 6 -> "zlib-6"
                                [] best_level = 9 -> "zlib-9")
      [] method = "bzip2" -> "lzma"
      [] method = "lzma"  -> "lzma"
      [] OTHER            -> ""

\* compression_method as lines 112, 116 and 123 set it.
compression_method_name(method, best_level) ==
    CASE method = "zlib"  -> (CASE best_level = 1 -> "zlib-1"
                                [] best_level = 6 -> "zlib-6"
                                [] best_level = 9 -> "zlib-9")
      [] method = "bzip2" -> "bzip2"
      [] method = "lzma"  -> "lzma"
      [] OTHER            -> ""

\* One turn of "for level in [1, 6, 9]" (lines 106-109).
zlib_try(best, data, level, lib) ==
    IF lib.n[level] < best.compressed.len
    THEN [compressed |-> Packed("zlib", data, lib.n[level]), level |-> level]
    ELSE best

\* The zlib branch (lines 102-112): best_compressed starts as data itself.
zlib_best(data, lib) ==
    zlib_try(zlib_try(zlib_try([compressed |-> Raw(data), level |-> 6],
                               data, 1, lib), data, 6, lib), data, 9, lib)

\* The value of `compressed` and `compression_method` at line 126.
compressed_by(method, data, lib) ==
    CASE method = "zlib" ->
           LET best == zlib_best(data, lib)
           IN  [compressed |-> best.compressed,
                method |-> compression_method_name(method, best.level)]
      [] method = "bzip2" ->
           [compressed |-> Packed("bz2", data, lib.n[9]),
            method |-> compression_method_name(method, 9)]
      [] method = "lzma" ->
           [compressed |-> Packed("lzma2", data, lib.n[9]),
            method |-> compression_method_name(method, 9)]
      [] OTHER ->
           [compressed |-> Raw(<<>>), method |-> ""]

\* compress_data(data, method): a pair (bytes, used method), or the
\* exception of analyze_data, which line 87 calls outside the try.
compress_data(data, method, lib) ==
    LET analysed == IF method = "auto" THEN analyze_data(data) ELSE Ret(method)
        m    == analysed.val
        d    == IF m # "store" /\ ~_is_compressed(Slice(data, SampleSize))
                THEN preprocess_text(data)
                ELSE data
        c    == compressed_by(m, d, lib)
    IN  IF ~analysed.ok THEN Raise(analysed.exc)
        ELSE IF m = "store" THEN Ret([data |-> Raw(d), method |-> "store"])
        ELSE IF lib.err /\ m \in {"zlib", "bzip2", "lzma"}
             THEN Ret([data |-> Raw(d), method |-> "store"])
        ELSE IF c.compressed.len > 0 /\ c.compressed.len < Len(d)
             THEN Ret([data |-> c.compressed, method |-> c.method])
        ELSE Ret([data |-> Raw(d), method |-> "store"])

\* ------------------------------------------------------------ ZipMakerGUI

\* The most create_zip threads alive at a time: the model takes no further
\* request while MaxWorkers threads are alive.
MaxWorkers == 2
\* The most files the list holds.
MaxFiles == 2
\* The most files one "Add Files" dialog hands back.
MaxPick == 2

\* The files on disk the user can pick, as path components, with contents:
\* an empty file and a text file "AB".
Files == { <<"docs", "empty.txt">>, <<"docs", "NOTES">> }

FileData(path) ==
    CASE path = <<"docs", "empty.txt">> -> <<>>
      [] path = <<"docs", "NOTES">>     -> <<65, 66>>

\* The longest file; the libraries' outputs for the files are 1..MaxFileLen
\* bytes long (shorter than the file, or not).
MaxFileLen == CHOOSE n \in { Len(FileData(f)) : f \in Files } :
                \A f \in Files : Len(FileData(f)) <= n

\* os.path.getsize
getsize(path) == Len(FileData(path))

\* os.path.basename
basename(path) == path[Len(path)]

\* The values of the five radio buttons.
Methods == {"auto", "zlib", "bzip2", "lzma", "store"}

\* What filedialog.askopenfilenames can return: a tuple of distinct files,
\* empty when the dialog is cancelled.
Picks ==
    UNION { { s \in [1..n -> Files] : \A i, j \in 1..n : s[i] = s[j] => i = j }
            : n \in 0..MaxPick }

VARIABLES
    files_to_zip,        \* self.files_to_zip
    tree,                \* the rows of self.tree: (formatted size, path)
    compression_method,  \* self.compression_method (tk.StringVar)
    is_processing,       \* self.is_processing
    button,              \* state of add_button, clear_button, create_button
    progress_var,        \* self.progress_var, as [num, den]
    status_label,        \* text of self.status_label (first line)
    save_dialog,         \* 1 while create_zip_threaded waits in the save dialog
    ui,                  \* the UI thread: position in a handler and its locals
    worker,              \* the live create_zip threads (a bag): position and locals
    e_data,              \* engine call: the data argument
    e_method,            \* engine call: the method argument
    e_call               \* engine call: the function applied and its result

vars == << files_to_zip, tree, compression_method, is_processing, button,
           progress_var, status_label, save_dialog, ui, worker,
           e_data, e_method, e_call >>

gui_vars == << files_to_zip, tree, compression_method, is_processing, button,
               progress_var, status_label, save_dialog, ui, worker >>

engine_vars == << e_data, e_method, e_call >>

\* ---- format_size

RECURSIVE Pow1024(_)
Pow1024(k) == IF k = 0 THEN 1 ELSE 1024 * Pow1024(k - 1)

\* round(num / den) to the nearest integer, ties to even: what the .1f
\* format does with a value that is exact in binary.
RoundHalfEven(num, den) ==
    LET q == num \div den
        r == num % den
    IN  IF 2 * r > den \/ (2 * r = den /\ q % 2 = 1) THEN q + 1 ELSE q

\* format_size(size): the number in tenths and the unit.  The loop divides
\* by 1024 until the value is below 1024 or the units B..GB are used up
\* (k counts the divisions: four of them have been made when "TB" is
\* returned).
format_size(size) ==
    LET units == <<"B", "KB", "MB", "GB", "TB">>
        k == IF size < Pow1024(1) THEN 0
             ELSE IF size < Pow1024(2) THEN 1
             ELSE IF size < Pow1024(3) THEN 2
             ELSE IF size \div Pow1024(3) < 1024 THEN 3
             ELSE 4
    IN  [tenths |-> RoundHalfEven(size * 10, Pow1024(k)),
         unit |-> units[k + 1]]

\* A float that is a quotient of two small integers, in lowest terms.
RECURSIVE GCD(_, _)
GCD(a, b) == IF b = 0 THEN a ELSE GCD(b, a % b)

Fraction(num, den) == [num |-> num \div GCD(num, den), den |-> den \div GCD(num, den)]

\* ---- construction

\* A create_zip thread as threading.Thread(...).start() leaves it.
NewWorker ==
    [pc |-> "start", total_files |-> 0, it |-> 0, file_path |-> <<>>,
     original_size |-> 0, compressed_size |-> 0, method |-> "", zipf |-> <<>>,
     state |-> "", exc |-> "none"]

\* The UI thread in the event loop (root.mainloop, or the loop a dialog
\* runs): no handler is running.
Idle == [pc |-> "idle", files |-> <<>>, state |-> ""]

\* ZipMakerGUI.__init__ and create_widgets.
GuiInit ==
    /\ files_to_zip = <<>>
    /\ tree = <<>>
    /\ compression_method = "auto"
    /\ is_processing = FALSE
    /\ button = [add |-> "normal", clear |-> "normal", create |-> "normal"]
    /\ progress_var = [num |-> 0, den |-> 1]
    /\ status_label = <<"Ready">>
    /\ save_dialog = 0
    /\ ui = Idle
    /\ worker = EmptyBag

NoCall == [fn |-> "none", ret |-> Ret("none")]

Init ==
    /\ GuiInit
    /\ e_data = <<>>
    /\ e_method = "auto"
    /\ e_call = NoCall

\* ---- UI-thread handlers

\* The UI thread dispatches events, and serves the widget calls of the
\* worker threads, only while it is in the event loop; a handler runs to
\* its end, or to a dialog, before the next event.  The statements of a
\* worker that are no widget calls run whatever the UI thread does.
Serving == ui.pc = "idle"

\* The live threads.
Live == BagToSet(worker)

\* A worker's "Success" or "Error" box (lines 341, 345) is open.
BoxOpen == \E me \in Live : me.pc \in {"line341_box", "line345_box"}

\* The user reaches a widget of the window: the event loop is running and
\* neither the save dialog nor a message box is open.  They are modal:
\* while one is open the loop still serves the workers' widget calls, but
\* the window's widgets get no input.
Reachable == Serving /\ save_dialog = 0 /\ ~BoxOpen

\* Tk runs the command of a ttk.Button (lines 165, 169, 236-240) only when
\* the user can reach the button and its state is 'normal': a click on a
\* 'disabled' button does nothing.
Clicked(b) == Reachable /\ button[b] = "normal"

\* add_files: every picked file not already listed is appended and shown.
RECURSIVE add_each(_, _)
add_each(files, listed) ==
    IF Len(files) = 0 THEN listed
    ELSE add_each(Tail(files),
                  IF \E i \in 1..Len(listed) : listed[i] = Head(files)
                  THEN listed
                  ELSE Append(listed, Head(files)))

tree_row(file) == << format_size(getsize(file)), file >>

\* The loop of line 258 goes on with the picks left, or the handler returns.
add_next(files) ==
    IF Len(files) = 0 THEN Idle
    ELSE [pc |-> "line259", files |-> files, state |-> ""]

\* add_files: "Add Files" is clicked and the file dialog returns `files`
\* (the handler reads nothing before the dialog, the dialog is modal and
\* no worker disables a button): the loop of line 258 starts.  The model
\* does not take a pick that makes the list longer than MaxFiles.
AddFiles(files) ==
    /\ Clicked("add")
    /\ Len(add_each(files, files_to_zip)) <= MaxFiles
    /\ ui' = add_next(files)
    /\ UNCHANGED << files_to_zip, tree, compression_method, is_processing,
                    button, progress_var, status_label, save_dialog,
                    worker, engine_vars >>

\* add_files, lines 259-260: a file already listed is skipped, another is
\* appended to the list.
AddFiles260 ==
    LET file == Head(ui.files)
    IN  /\ ui.pc = "line259"
        /\ IF \E i \in 1..Len(files_to_zip) : files_to_zip[i] = file
           THEN /\ ui' = add_next(Tail(ui.files))
                /\ UNCHANGED files_to_zip
           ELSE /\ files_to_zip' = Append(files_to_zip, file)
                /\ ui' = [ui EXCEPT !.pc = "line261"]
        /\ UNCHANGED << tree, compression_method, is_processing, button,
                        progress_var, status_label, save_dialog, worker,
                        engine_vars >>

\* add_files, lines 261-265: the size of the file is read and its row is
\* inserted in the tree.  os.path.getsize can fail with an I/O error, which
\* nothing catches: the handler is left, the file stays listed without a
\* row and the picks left are not added.
AddFiles262(ioerr) ==
    /\ ui.pc = "line261"
    /\ IF ioerr
       THEN /\ ui' = Idle
            /\ UNCHANGED tree
       ELSE /\ tree' = Append(tree, tree_row(Head(ui.files)))
            /\ ui' = add_next(Tail(ui.files))
    /\ UNCHANGED << files_to_zip, compression_method, is_processing,
                    button, progress_var, status_label, save_dialog,
                    worker, engine_vars >>

\* clear_files: "Clear Files" is clicked; line 269: the list is emptied.
ClearFiles ==
    /\ Clicked("clear")
    /\ files_to_zip' = <<>>
    /\ ui' = [Idle EXCEPT !.pc = "line270"]
    /\ UNCHANGED << tree, compression_method, is_processing, button,
                    progress_var, status_label, save_dialog, worker,
                    engine_vars >>

\* clear_files, line 270: the rows of the tree are deleted.
ClearFiles270 ==
    /\ ui.pc = "line270"
    /\ tree' = <<>>
    /\ ui' = Idle
    /\ UNCHANGED << files_to_zip, compression_method, is_processing,
                    button, progress_var, status_label, save_dialog,
                    worker, engine_vars >>

\* A radio button (lines 184-190; never disabled) sets
\* self.compression_method.
SelectMethod(m) ==
    /\ Reachable
    /\ compression_method' = m
    /\ UNCHANGED << files_to_zip, tree, is_processing, button,
                    progress_var, status_label, save_dialog, ui, worker,
                    engine_vars >>

\* create_zip_threaded, lines 272-286: "Create Zip File" is clicked.  With
\* no file listed the handler shows "No files selected!" and returns; with
\* the flag set it shows "Already processing!" and returns (message boxes
\* are modal and gone when the call returns: they leave no state behind);
\* else the save dialog opens (line 282).  The model takes no request that
\* would open the dialog while MaxWorkers threads are alive.
CreateZipThreaded ==
    /\ Clicked("create")
    /\ IF Len(files_to_zip) = 0 THEN UNCHANGED save_dialog
       ELSE IF is_processing THEN UNCHANGED save_dialog
       ELSE /\ BagCardinality(worker) < MaxWorkers
            /\ save_dialog' = 1
    /\ UNCHANGED << files_to_zip, tree, compression_method, is_processing,
                    button, progress_var, status_label, ui, worker,
                    engine_vars >>

\* The save dialog is cancelled (output_path = ''): the call returns.
CreateCancelled ==
    /\ Serving
    /\ save_dialog = 1
    /\ save_dialog' = 0
    /\ UNCHANGED << files_to_zip, tree, compression_method, is_processing,
                    button, progress_var, status_label, ui, worker,
                    engine_vars >>

\* The save dialog returns a path, lines 288-289: the flag is set; the
\* guards of lines 274 and 278 are not evaluated again.
Create289 ==
    /\ Serving
    /\ save_dialog = 1
    /\ save_dialog' = 0
    /\ is_processing' = TRUE
    /\ ui' = [Idle EXCEPT !.pc = "line364"]
    /\ UNCHANGED << files_to_zip, tree, compression_method, button,
                    progress_var, status_label, worker, engine_vars >>

\* Line 290 -> update_buttons_state, line 364: the flag is read again.
Create364 ==
    /\ ui.pc = "line364"
    /\ ui' = [ui EXCEPT !.state = IF is_processing THEN "disabled"
                                                   ELSE "normal",
                        !.pc = "line365"]
    /\ UNCHANGED << files_to_zip, tree, compression_method, is_processing,
                    button, progress_var, status_label, save_dialog,
                    worker, engine_vars >>

\* update_buttons_state in the UI thread, line 365: add_button.
Create365 ==
    /\ ui.pc = "line365"
    /\ button' = [button EXCEPT !.add = ui.state]
    /\ ui' = [ui EXCEPT !.pc = "line366"]
    /\ UNCHANGED << files_to_zip, tree, compression_method, is_processing,
                    progress_var, status_label, save_dialog, worker,
                    engine_vars >>

\* update_buttons_state in the UI thread, line 366: clear_button.
Create366 ==
    /\ ui.pc = "line366"
    /\ button' = [button EXCEPT !.clear = ui.state]
    /\ ui' = [ui EXCEPT !.pc = "line367"]
    /\ UNCHANGED << files_to_zip, tree, compression_method, is_processing,
                    progress_var, status_label, save_dialog, worker,
                    engine_vars >>

\* update_buttons_state in the UI thread, line 367: create_button; the
\* call returns.
Create367 ==
    /\ ui.pc = "line367"
    /\ button' = [button EXCEPT !.create = ui.state]
    /\ ui' = [Idle EXCEPT !.pc = "line291"]
    /\ UNCHANGED << files_to_zip, tree, compression_method, is_processing,
                    progress_var, status_label, save_dialog, worker,
                    engine_vars >>

\* Lines 291-295: the thread is started and the handler returns.
CreateStart ==
    /\ ui.pc = "line291"
    /\ worker' = worker (+) SetToBag({NewWorker})
    /\ ui' = Idle
    /\ UNCHANGED << files_to_zip, tree, compression_method, is_processing,
                    button, progress_var, status_label, save_dialog,
                    engine_vars >>

\* A handler that has begun goes on.
UiRuns ==
    \/ AddFiles260
    \/ \E ioerr \in BOOLEAN : AddFiles262(ioerr)
    \/ ClearFiles270
    \/ Create364
    \/ Create365
    \/ Create366
    \/ Create367
    \/ CreateStart

\* ---- create_zip, one worker thread

\* The threads are told apart by their state only: `me` is the state of the
\* thread that takes the step, Moved(me, new) the bag after it.
Moved(me, new) == (worker (-) SetToBag({me})) (+) SetToBag({new})

\* An exception is raised in the try block: the except block (line 343)
\* is next.
Raised(me, exc) == worker' = Moved(me, [me EXCEPT !.pc = "line344", !.exc = exc])

\* An exception that leaves the with block of line 304 closes the archive
\* on its way; when the close fails, its OSError is the one that is caught.
Leaving(exc, closeerr) == IF closeerr THEN "OSError" ELSE exc

\* Lines 300-302: the length of the list is read and the sizes are zero.
WBegin(me) ==
    /\ me.pc = "start"
    /\ worker' = Moved(me, [me EXCEPT !.total_files = Len(files_to_zip),
                                      !.pc = "line304"])
    /\ UNCHANGED << files_to_zip, tree, compression_method, is_processing,
                    button, progress_var, status_label, save_dialog, ui,
                    engine_vars >>

\* Line 304: the archive is opened, which can fail with an I/O error.
WOpen304(me, ioerr) ==
    /\ me.pc = "line304"
    /\ IF ioerr
       THEN Raised(me, "OSError")
       ELSE worker' = Moved(me, [me EXCEPT !.pc = "line305"])
    /\ UNCHANGED << files_to_zip, tree, compression_method, is_processing,
                    button, progress_var, status_label, save_dialog, ui,
                    engine_vars >>

\* Line 305: the list iterator yields the next element of the list as it
\* is now, or the loop is left.
WNext305(me) ==
    /\ me.pc = "line305"
    /\ IF me.it < Len(files_to_zip)
       THEN worker' = Moved(me, [me EXCEPT !.it = @ + 1,
                                           !.file_path = files_to_zip[me.it + 1],
                                           !.pc = "line306"])
       ELSE worker' = Moved(me, [me EXCEPT !.pc = "line332"])
    /\ UNCHANGED << files_to_zip, tree, compression_method, is_processing,
                    button, progress_var, status_label, save_dialog, ui,
                    engine_vars >>

\* Line 306 -> update_status, line 359: the status names the file.
WStatus306(me) ==
    /\ me.pc = "line306"
    /\ Serving
    /\ status_label' = <<"Processing: ", basename(me.file_path)>>
    /\ worker' = Moved(me, [me EXCEPT !.pc = "line306_360"])
    /\ UNCHANGED << files_to_zip, tree, compression_method, is_processing,
                    button, progress_var, save_dialog, ui, engine_vars >>

\* update_status, line 360: update_idletasks is served and the call
\* returns.
WIdle306(me) ==
    /\ me.pc = "line306_360"
    /\ Serving
    /\ worker' = Moved(me, [me EXCEPT !.pc = "line308"])
    /\ UNCHANGED << files_to_zip, tree, compression_method, is_processing,
                    button, progress_var, status_label, save_dialog, ui,
                    engine_vars >>

\* Lines 308-311: the file is read, which can fail with an I/O error, and
\* its length is added to original_size.  (data is FileData(file_path) for
\* the rest of the turn.)
WRead309(me, ioerr) ==
    LET data == FileData(me.file_path)
    IN  /\ me.pc = "line308"
        /\ IF ioerr
           THEN Raised(me, "OSError")
           ELSE worker' = Moved(me, [me EXCEPT
                                       !.original_size = @ + Len(data),
                                       !.pc = "line312"])
        /\ UNCHANGED << files_to_zip, tree, compression_method,
                        is_processing, button, progress_var, status_label,
                        save_dialog, ui, engine_vars >>

\* Line 312: the radio buttons' variable is read.
WMethod312(me) ==
    /\ me.pc = "line312"
    /\ Serving
    /\ worker' = Moved(me, [me EXCEPT !.method = compression_method,
                                      !.pc = "line314"])
    /\ UNCHANGED << files_to_zip, tree, compression_method, is_processing,
                    button, progress_var, status_label, save_dialog, ui,
                    engine_vars >>

\* The archive entry of lines 314-327.
zip_entry(file_path, method, r) ==
    IF method # "store"
    THEN [arc_name |-> IF r.val.method # "store"
                       THEN <<basename(file_path), r.val.method>>
                       ELSE <<basename(file_path)>>,
          data |-> r.val.data,
          via |-> "writestr"]
    ELSE [arc_name |-> <<basename(file_path)>>,
          data |-> Raw(FileData(file_path)),
          via |-> "write"]

\* Lines 315-318, the call compress_data(data, method=method) for the bytes
\* of a file, a method and an outcome of the libraries: what it returns,
\* or raises.
compress_call ==
    [file_path \in Files, method \in Methods, lib \in LibOutcomes(MaxFileLen)
        |-> compress_data(FileData(file_path), method, lib)]

\* The same function held as a table (f @@ f is f), so that the results
\* are computed once.
compressed == compress_call @@ compress_call

\* Lines 314-324, or 314 and 327: the data is compressed (unless the method
\* is 'store') and the entry is written into the archive.  compress_data
\* can raise; zipf.writestr (line 324) and zipf.write (line 327) can fail
\* with an I/O error, and then the archive has no such entry.
WWrite327(me, ioerr, lib, closeerr) ==
    LET r       == compressed[me.file_path, me.method, lib]
        written == [me EXCEPT
                      !.zipf = Append(@, zip_entry(me.file_path, me.method, r)),
                      !.pc = "line328"]
    IN  /\ me.pc = "line314"
        /\ IF me.method # "store" /\ ~r.ok
           THEN Raised(me, Leaving(r.exc, closeerr))
           ELSE IF ioerr
           THEN Raised(me, "OSError")
           ELSE worker' = Moved(me, written)
        /\ UNCHANGED << files_to_zip, tree, compression_method,
                        is_processing, button, progress_var, status_label,
                        save_dialog, ui, engine_vars >>

\* The entry a thread wrote last.
LastEntry(me) == me.zipf[Len(me.zipf)]

\* Line 325, or line 328: compressed_size grows by the length of the bytes
\* written or, with 'store', by os.path.getsize(file_path), which can fail
\* with an I/O error: the entry is in the archive then, and compressed_size
\* is left as it was.
WSize328(me, ioerr) ==
    /\ me.pc = "line328"
    /\ IF me.method # "store"
       THEN worker' = Moved(me, [me EXCEPT
                                   !.compressed_size = @ + LastEntry(me).data.len,
                                   !.pc = "line330"])
       ELSE IF ioerr
       THEN Raised(me, "OSError")
       ELSE worker' = Moved(me, [me EXCEPT
                                   !.compressed_size = @ + getsize(me.file_path),
                                   !.pc = "line330"])
    /\ UNCHANGED << files_to_zip, tree, compression_method, is_processing,
                    button, progress_var, status_label, save_dialog, ui,
                    engine_vars >>

\* Lines 330-331 -> update_progress, line 354: the progress is computed,
\* dividing by total_files, and set.
WProgress331(me, closeerr) ==
    /\ me.pc = "line330"
    /\ IF me.total_files = 0
       THEN /\ Raised(me, Leaving("ZeroDivisionError", closeerr))
            /\ UNCHANGED progress_var
       ELSE /\ Serving
            /\ progress_var' = Fraction(me.it * 100, me.total_files)
            /\ worker' = Moved(me, [me EXCEPT !.pc = "line331_355"])
    /\ UNCHANGED << files_to_zip, tree, compression_method, is_processing,
                    button, status_label, save_dialog, ui, engine_vars >>

\* update_progress, line 355: update_idletasks is served and the call
\* returns; the loop goes on.
WIdle331(me) ==
    /\ me.pc = "line331_355"
    /\ Serving
    /\ worker' = Moved(me, [me EXCEPT !.pc = "line305"])
    /\ UNCHANGED << files_to_zip, tree, compression_method, is_processing,
                    button, progress_var, status_label, save_dialog, ui,
                    engine_vars >>

\* The loop has been left: the with block of line 304 ends, closing the
\* archive, which can fail with an I/O error; then lines 334-338: the
\* ratio divides by original_size.
WClose334(me, ioerr) ==
    /\ me.pc = "line332"
    /\ IF ioerr
       THEN Raised(me, "OSError")
       ELSE IF me.original_size = 0
       THEN Raised(me, "ZeroDivisionError")
       ELSE worker' = Moved(me, [me EXCEPT !.pc = "line340"])
    /\ UNCHANGED << files_to_zip, tree, compression_method, is_processing,
                    button, progress_var, status_label, save_dialog, ui,
                    engine_vars >>

\* Line 340 -> update_status, line 359: the success message (status_label
\* keeps its first line, without the sizes and the ratio).
WStatus340(me) ==
    /\ me.pc = "line340"
    /\ Serving
    /\ status_label' = <<"Zip file created successfully!">>
    /\ worker' = Moved(me, [me EXCEPT !.pc = "line340_360"])
    /\ UNCHANGED << files_to_zip, tree, compression_method, is_processing,
                    button, progress_var, save_dialog, ui, engine_vars >>

\* update_status, line 360: update_idletasks is served and the call
\* returns.
WIdle340(me) ==
    /\ me.pc = "line340_360"
    /\ Serving
    /\ worker' = Moved(me, [me EXCEPT !.pc = "line341"])
    /\ UNCHANGED << files_to_zip, tree, compression_method, is_processing,
                    button, progress_var, status_label, save_dialog, ui,
                    engine_vars >>

\* Line 341, messagebox.showinfo is called: the "Success" box opens.
WShow341(me) ==
    /\ me.pc = "line341"
    /\ Serving
    /\ worker' = Moved(me, [me EXCEPT !.pc = "line341_box"])
    /\ UNCHANGED << files_to_zip, tree, compression_method, is_processing,
                    button, progress_var, status_label, save_dialog, ui,
                    engine_vars >>

\* Line 341, the user dismisses the "Success" box: the call returns.
WInfo341(me) ==
    /\ me.pc = "line341_box"
    /\ Serving
    /\ worker' = Moved(me, [me EXCEPT !.pc = "line348"])
    /\ UNCHANGED << files_to_zip, tree, compression_method, is_processing,
                    button, progress_var, status_label, save_dialog, ui,
                    engine_vars >>

\* The except block, line 344 -> update_status, line 359: the status
\* shows the error.
WStatus344(me) ==
    /\ me.pc = "line344"
    /\ Serving
    /\ status_label' = <<"Error: ", me.exc>>
    /\ worker' = Moved(me, [me EXCEPT !.pc = "line344_360"])
    /\ UNCHANGED << files_to_zip, tree, compression_method, is_processing,
                    button, progress_var, save_dialog, ui, engine_vars >>

\* update_status, line 360: update_idletasks is served and the call
\* returns.
WIdle344(me) ==
    /\ me.pc = "line344_360"
    /\ Serving
    /\ worker' = Moved(me, [me EXCEPT !.pc = "line345"])
    /\ UNCHANGED << files_to_zip, tree, compression_method, is_processing,
                    button, progress_var, status_label, save_dialog, ui,
                    engine_vars >>

\* Line 345, messagebox.showerror is called: the "Error" box opens.
WShow345(me) ==
    /\ me.pc = "line345"
    /\ Serving
    /\ worker' = Moved(me, [me EXCEPT !.pc = "line345_box"])
    /\ UNCHANGED << files_to_zip, tree, compression_method, is_processing,
                    button, progress_var, status_label, save_dialog, ui,
                    engine_vars >>

\* Line 345, the user dismisses the "Error" box: the call returns.
WError345(me) ==
    /\ me.pc = "line345_box"
    /\ Serving
    /\ worker' = Moved(me, [me EXCEPT !.pc = "line348"])
    /\ UNCHANGED << files_to_zip, tree, compression_method, is_processing,
                    button, progress_var, status_label, save_dialog, ui,
                    engine_vars >>

\* finally, line 348: self.is_processing = False.  The locals of the try
\* block are dead from here on and are dropped.
WFinally348(me) ==
    /\ me.pc = "line348"
    /\ is_processing' = FALSE
    /\ worker' = Moved(me, [NewWorker EXCEPT !.pc = "line364"])
    /\ UNCHANGED << files_to_zip, tree, compression_method, button,
                    progress_var, status_label, save_dialog, ui,
                    engine_vars >>

\* update_buttons_state with the two states of line 364 exchanged.
WState364_swapped(me) ==
    /\ me.pc = "line364"
    /\ worker' = Moved(me, [me EXCEPT
                              !.state = IF is_processing THEN "normal"
                                                         ELSE "disabled",
                              !.pc = "line365"])
    /\ UNCHANGED << files_to_zip, tree, compression_method, is_processing,
                    button, progress_var, status_label, save_dialog, ui,
                    engine_vars >>

\* finally, line 349 -> update_buttons_state, line 364: the flag is read.
WState364(me) ==
    /\ me.pc = "line364"
    /\ worker' = Moved(me, [me EXCEPT
                              !.state = IF is_processing THEN "disabled"
                                                         ELSE "normal",
                              !.pc = "line365"])
    /\ UNCHANGED << files_to_zip, tree, compression_method, is_processing,
                    button, progress_var, status_label, save_dialog, ui,
                    engine_vars >>

\* update_buttons_state, line 365: add_button is configured with the state
\* computed at line 364.
WConfig365(me) ==
    /\ me.pc = "line365"
    /\ Serving
    /\ button' = [button EXCEPT !.add = me.state]
    /\ worker' = Moved(me, [me EXCEPT !.pc = "line366"])
    /\ UNCHANGED << files_to_zip, tree, compression_method, is_processing,
                    progress_var, status_label, save_dialog, ui,
                    engine_vars >>

\* update_buttons_state, line 366: clear_button.
WConfig366(me) ==
    /\ me.pc = "line366"
    /\ Serving
    /\ button' = [button EXCEPT !.clear = me.state]
    /\ worker' = Moved(me, [me EXCEPT !.pc = "line367"])
    /\ UNCHANGED << files_to_zip, tree, compression_method, is_processing,
                    progress_var, status_label, save_dialog, ui,
                    engine_vars >>

\* update_buttons_state, line 367: create_button; the call returns.
WConfig367(me) ==
    /\ me.pc = "line367"
    /\ Serving
    /\ button' = [button EXCEPT !.create = me.state]
    /\ worker' = Moved(me, [me EXCEPT !.pc = "line350"])
    /\ UNCHANGED << files_to_zip, tree, compression_method, is_processing,
                    progress_var, status_label, save_dialog, ui,
                    engine_vars >>

\* finally, line 350 -> update_progress(0), line 354: the progress is set
\* to 0.
WFinally350(me) ==
    /\ me.pc = "line350"
    /\ Serving
    /\ progress_var' = [num |-> 0, den |-> 1]
    /\ worker' = Moved(me, [me EXCEPT !.pc = "line350_355"])
    /\ UNCHANGED << files_to_zip, tree, compression_method, is_processing,
                    button, status_label, save_dialog, ui, engine_vars >>

\* update_progress, line 355: update_idletasks is served, the call returns
\* and the thread ends.
WEnd355(me) ==
    /\ me.pc = "line350_355"
    /\ Serving
    /\ worker' = worker (-) SetToBag({me})
    /\ UNCHANGED << files_to_zip, tree, compression_method, is_processing,
                    button, progress_var, status_label, save_dialog, ui,
                    engine_vars >>

\* The next step of the thread in state `me`, whichever it is.
WorkerStep(me) ==
    \/ WBegin(me)
    \/ \E ioerr \in BOOLEAN : WOpen304(me, ioerr)
    \/ WNext305(me)
    \/ WStatus306(me)
    \/ WIdle306(me)
    \/ \E ioerr \in BOOLEAN : WRead309(me, ioerr)
    \/ WMethod312(me)
    \/ \E ioerr \in BOOLEAN, lib \in LibOutcomes(MaxFileLen),
          closeerr \in BOOLEAN : WWrite327(me, ioerr, lib, closeerr)
    \/ \E ioerr \in BOOLEAN : WSize328(me, ioerr)
    \/ \E closeerr \in BOOLEAN : WProgress331(me, closeerr)
    \/ WIdle331(me)
    \/ \E ioerr \in BOOLEAN : WClose334(me, ioerr)
    \/ WStatus340(me)
    \/ WIdle340(me)
    \/ WShow341(me)
    \/ WInfo341(me)
    \/ WStatus344(me)
    \/ WIdle344(me)
    \/ WShow345(me)
    \/ WError345(me)
    \/ WFinally348(me)
    \/ WState364(me)
    \/ WConfig365(me)
    \/ WConfig366(me)
    \/ WConfig367(me)
    \/ WFinally350(me)
    \/ WEnd355(me)

Next ==
    \/ \E files \in Picks : AddFiles(files)
    \/ AddFiles260
    \/ \E ioerr \in BOOLEAN : AddFiles262(ioerr)
    \/ ClearFiles
    \/ ClearFiles270
    \/ \E m \in Methods : SelectMethod(m)
    \/ CreateZipThreaded
    \/ CreateCancelled
    \/ Create289
    \/ Create364
    \/ Create365
    \/ Create366
    \/ Create367
    \/ CreateStart
    \/ \E me \in Live : WBegin(me)
    \/ \E me \in Live, ioerr \in BOOLEAN : WOpen304(me, ioerr)
    \/ \E me \in Live : WNext305(me)
    \/ \E me \in Live : WStatus306(me)
    \/ \E me \in Live : WIdle306(me)
    \/ \E me \in Live, ioerr \in BOOLEAN : WRead309(me, ioerr)
    \/ \E me \in Live : WMethod312(me)
    \/ \E me \in Live, ioerr \in BOOLEAN, lib \in LibOutcomes(MaxFileLen),
          closeerr \in BOOLEAN : WWrite327(me, ioerr, lib, closeerr)
    \/ \E me \in Live, ioerr \in BOOLEAN : WSize328(me, ioerr)
    \/ \E me \in Live, closeerr \in BOOLEAN : WProgress331(me, closeerr)
    \/ \E me \in Live : WIdle331(me)
    \/ \E me \in Live, ioerr \in BOOLEAN : WClose334(me, ioerr)
    \/ \E me \in Live : WStatus340(me)
    \/ \E me \in Live : WIdle340(me)
    \/ \E me \in Live : WShow341(me)
    \/ \E me \in Live : WInfo341(me)
    \/ \E me \in Live : WStatus344(me)
    \/ \E me \in Live : WIdle344(me)
    \/ \E me \in Live : WShow345(me)
    \/ \E me \in Live : WError345(me)
    \/ \E me \in Live : WFinally348(me)
    \/ \E me \in Live : WState364(me)
    \/ \E me \in Live : WConfig365(me)
    \/ \E me \in Live : WConfig366(me)
    \/ \E me \in Live : WConfig367(me)
    \/ \E me \in Live : WFinally350(me)
    \/ \E me \in Live : WEnd355(me)

Spec == Init /\ [][Next]_vars

\* ---- scheduling

\* The positions of a thread whose next step is a statement of its own:
\* the thread is scheduled and takes it.
OwnPcs ==
    {"start", "line304", "line305", "line308", "line314", "line328",
     "line332", "line348", "line364"}

\* The positions up to line 349 of a thread whose next step is a widget
\* call, which the UI thread runs for it from the event queue (line 330
\* computes the progress and makes such a call).
ServedPcs ==
    {"line306", "line306_360", "line312", "line330", "line331_355",
     "line340", "line340_360", "line341", "line344", "line344_360",
     "line345", "line365", "line366", "line367"}

WorkerAt(pc) == \E me \in Live : me.pc = pc /\ WorkerStep(me)

\* The thread that has not yet reached line 350 takes a step of its own.
OwnStep == \E me \in Live : me.pc \in OwnPcs /\ WorkerStep(me)

\* The widget call of the thread that has not yet reached line 350 is made.
Served == \E me \in Live : me.pc \in ServedPcs /\ WorkerStep(me)

\* The create button stays 'disabled' from line 290 of the request until
\* line 367 of the thread it started: at most one thread has not yet
\* reached line 350.
OneBeforeLine350 ==
    BagCardinality(worker)
        <= 1 + Cardinality({ me \in Live : me.pc \in {"line350", "line350_355"} })
    /\ \A me \in Live : me.pc \notin {"line350", "line350_355"} => worker[me] = 1

\* A handler that has begun goes on and a thread's own step is taken (weak
\* fairness).  A widget call waits in the event queue while a handler
\* runs, and the event loop takes it from the queue between two handlers:
\* the call is made however often handlers are run (strong fairness: for
\* the one thread before line 350, and for the calls of lines 354 and 355).
\* Nothing makes the user act: a save dialog or a message box can stay
\* open for ever, and a thread whose box is open ("line341_box",
\* "line345_box", in neither set of positions) waits as long.
FairSpec ==
    /\ Spec
    /\ WF_vars(UiRuns)
    /\ WF_vars(OwnStep)
    /\ SF_vars(Served)
    /\ SF_vars(WorkerAt("line350"))
    /\ SF_vars(WorkerAt("line350_355"))

\* ------------------------------------------------ the engine called alone

\* The byte values of the free-form inputs: 'A', 'b', ' ' and 0xFF.
Alphabet == {65, 98, 32, 255}

SeqsUpTo(S, n) == UNION { [1..k -> S] : k \in 0..n }

Range(f) == { f[i] : i \in DOMAIN f }

\* Inputs of the engine: every string over Alphabet up to MaxLen, every
\* signature followed by up to MaxTail more bytes, and every proper prefix
\* of a signature.
DataSet ==
    SeqsUpTo(Alphabet, MaxLen)
    \cup { sig \o t : sig \in Range(compression_signatures),
                      t \in SeqsUpTo({65}, MaxTail) }
    \cup UNION { { SubSeq(sig, 1, k) : k \in 1..(Len(sig) - 1) }
                 : sig \in Range(compression_signatures) }

\* The method arguments: the five the GUI passes and one unknown name.
MethodArgs == Methods \cup {"gzip"}

EngineInit ==
    /\ GuiInit
    /\ e_data \in DataSet
    /\ e_method \in MethodArgs
    /\ e_call = NoCall

\* analyze_data(e_data)
CallAnalyzeData ==
    /\ e_call' = [fn |-> "analyze_data", ret |-> analyze_data(e_data)]
    /\ UNCHANGED << gui_vars, e_data, e_method >>

\* compress_data(e_data, e_method)
CallCompressData(lib) ==
    /\ e_call' = [fn |-> "compress_data",
                  ret |-> compress_data(e_data, e_method, lib)]
    /\ UNCHANGED << gui_vars, e_data, e_method >>

EngineNext ==
    \/ CallAnalyzeData
    \/ \E lib \in LibOutcomes(MaxLen + MaxTail + 2) : CallCompressData(lib)

EngineSpec == EngineInit /\ [][EngineNext]_vars

\* ------------------------------------------------------------- properties

ExplicitMethods == {"zlib", "bzip2", "lzma"}

Classes == {"store", "zlib", "bzip2", "lzma"}

\* C1: analyze_data classifies every input: whatever the data, the call
\* completes with exactly one of 'store', 'zlib', 'bzip2', 'lzma' and never
\* ends in an error.  (Violated: _calculate_entropy raises AttributeError
\* on every non-empty sample.)
C1_AnalyzeDataClassifies ==
    e_call.fn = "analyze_data" =>
        /\ e_call.ret.ok
        /\ e_call.ret.val \in Classes

\* C5: data that starts with a known compression signature is not
\* compressed again in automatic mode: analyze_data returns 'store' and
\* compress_data(data, 'auto') returns (data unchanged, 'store').
\* (Violated: the entropy is computed, and raises, before the signature
\* test; compress_data calls analyze_data outside its try.)
C5_SignedDataIsStored ==
    LET signed == \E i \in 1..Len(compression_signatures) :
                      startswith(e_data, compression_signatures[i])
    IN  /\ (e_call.fn = "analyze_data" /\ signed) =>
               (e_call.ret.ok /\ e_call.ret.val = "store")
        /\ (e_call.fn = "compress_data" /\ e_method = "auto" /\ signed) =>
               (/\ e_call.ret.ok
                /\ e_call.ret.val.method = "store"
                /\ e_call.ret.val.data = Raw(e_data))

\* C6: whenever compress_data reports the method 'store', the bytes it
\* returns are the bytes it was called with.  (Violated: the data is
\* replaced by preprocess_text(data) before the compression is tried, and
\* that is what comes back.)
C6_StoreReturnsOriginal ==
    (e_call.fn = "compress_data" /\ e_call.ret.ok
        /\ e_call.ret.val.method = "store") =>
        e_call.ret.val.data = Raw(e_data)

\* C2: archiving is never run twice at once: at most one create_zip worker
\* is running at any time, and a request made while is_processing is true
\* gets no further than the warning and starts no worker.  (Violated: the
\* worker clears is_processing at line 348 and enables the buttons at
\* lines 365-367, and is still running line 350 when the next request
\* starts another worker.)
C2_Step ==
    /\ BagCardinality(worker') <= 1
    /\ is_processing => save_dialog' <= save_dialog

C2_NeverTwiceAtOnce == [][C2_Step]_vars

\* The suffix of an archive entry's name, 'store' when it has none.
EntrySuffix(e) == IF Len(e.arc_name) = 2 THEN e.arc_name[2] ELSE "store"

AllowedFor(method) ==
    CASE method = "zlib"  -> {"zlib-1", "zlib-6", "zlib-9", "store"}
      [] method = "bzip2" -> {"bzip2", "store"}
      [] method = "lzma"  -> {"lzma", "store"}

\* The thread in state `me` writes an entry in this step and is in state
\* `new` after it: one more entry is in its archive.
Writes(me, new) ==
    /\ me.pc = "line314"
    /\ worker' = Moved(me, new)
    /\ Len(new.zipf) = Len(me.zipf) + 1

\* The entry e is what the method read at line 312 asks for the file.
Applied(method, file_path, e) ==
    /\ method \in ExplicitMethods =>
          /\ e.via = "writestr"
          /\ e.arc_name[1] = basename(file_path)
          /\ EntrySuffix(e) \in AllowedFor(method)
          /\ e.data.enc = "raw" <=> EntrySuffix(e) = "store"
    /\ method = "store" =>
          /\ e.via = "write"
          /\ e.arc_name = <<basename(file_path)>>
          /\ e.data = Raw(FileData(file_path))

C3_Step ==
    \A me \in Live : \A new \in BagToSet(worker') :
        Writes(me, new) =>
            /\ new.zipf = Append(me.zipf, LastEntry(new))
            /\ Applied(me.method, me.file_path, LastEntry(new))

\* C3: the strategy the user chose is the one applied: whenever a worker
\* writes an entry, for the file it is at and the method M it read for it,
\* then with M in {zlib, bzip2, lzma} the entry comes from compress_data,
\* is named after the file and its suffix (the method compress_data
\* reported) is M (zlib-1, zlib-6 or zlib-9 for zlib) or none ('store'),
\* never another algorithm; with 'store', compress_data is not called and
\* the bytes of that file are written under its bare basename.  The
\* entries written before stay as they are.
C3_ChosenMethodApplied == [][C3_Step]_vars

\* C3 happens: a file written with bzip2 chosen carries the suffix bzip2,
\* after one written with 'store' chosen went in as it is on disk.
C3_Witness ==
    \E me \in Live :
        /\ me.pc = "line328"
        /\ me.method = "bzip2"
        /\ me.file_path = <<"docs", "NOTES">>
        /\ Len(me.zipf) = 2
        /\ LastEntry(me).arc_name = <<"NOTES", "bzip2">>
        /\ me.zipf[1] = [arc_name |-> <<"empty.txt">>, data |-> Raw(<<>>),
                         via |-> "write"]

\* C4: a create_zip run over a non-empty list in which every file is read
\* and written without an I/O error ends in the success outcome, never in
\* the error outcome: a worker that found the list non-empty, has taken
\* as many files from it as it counted and has met no I/O error reaches
\* line 348 by way of the success message, with no exception.  (Violated:
\* AttributeError out of compress_data in automatic mode;
\* ZeroDivisionError when all the files are empty.)
C4_ValidRequestSucceeds ==
    \A me \in Live :
        (me.pc = "line348" /\ me.total_files > 0 /\ me.it = me.total_files
            /\ me.exc # "OSError") =>
            me.exc = "none"

\* update_buttons_state returns in this step: a worker leaves line 367, or
\* the UI thread has run it inside create_zip_threaded.
UpdateButtonsReturns ==
    \/ \E me \in Live :
          /\ me.pc = "line367"
          /\ worker' = Moved(me, [me EXCEPT !.pc = "line350"])
    \/ ui.pc = "line367" /\ ui'.pc = "line291"

ButtonsAre(state) ==
    button = [add |-> state, clear |-> state, create |-> state]

Restored ==
    /\ ~is_processing
    /\ ButtonsAre("normal")
    /\ progress_var = [num |-> 0, den |-> 1]

\* A worker is in the try block or in the except block (before line 348).
Running == \E me \in Live : me.pc \notin {"line348", "line364", "line365",
                                          "line366", "line367", "line350",
                                          "line350_355"}

\* A worker is in lines 348-349: its message box has been dismissed and
\* update_buttons_state has not yet returned.
Finishing == \E me \in Live : me.pc \in {"line348", "line364", "line365",
                                         "line366", "line367"}

\* A worker has run update_buttons_state in its finally block and has
\* line 350 to run.
AtLine350 == \E me \in Live : me.pc = "line350"

\* The end of lines 348-349: the flag is cleared and the buttons are set
\* back.
FlagAndButtonsBack ==
    AtLine350 /\ ~Running /\ ~is_processing /\ ButtonsAre("normal")

\* Whenever update_buttons_state has run, the three buttons are 'disabled'
\* exactly when is_processing is true.
ButtonsFollowFlag ==
    [][UpdateButtonsReturns =>
         (IF is_processing THEN ButtonsAre("disabled")
                           ELSE ButtonsAre("normal"))']_vars

\* Once line 350 is reached the progress is reset to 0, and the flag, the
\* buttons and the progress are restored together unless another worker
\* has been started meanwhile.
ProgressReset ==
    /\ AtLine350 ~> (progress_var = [num |-> 0, den |-> 1])
    /\ AtLine350 ~> (Restored \/ BagCardinality(worker) > 1)

====
